---- MODULE Spec2Model ----
(***************************************************************************)
(* Model of sample_flow.py: the "ecs-worker-validation" flow.              *)
(*                                                                         *)
(* validation_flow calls three collectors in sequence (get_system_info,    *)
(* test_connectivity, check_resources), merges their results into a        *)
(* summary and prints a pass/fail banner.  The model follows the code      *)
(* statement by statement wherever an outside effect (environment read,    *)
(* HTTP request, JSON parse, OS sample) can go one way or another.         *)
(*                                                                         *)
(* Python values:                                                          *)
(*   dict            -> TLA+ record / function with string keys            *)
(*   list            -> sequence                                           *)
(*   None            -> the string None (below), distinct from every       *)
(*                      string in the input domains                        *)
(*   optional object -> <<>> (absent) or <<v>> (present)                   *)
(*   exception       -> [type |-> class name, msg |-> str(e)]              *)
(*   float with two decimals -> integer number of hundredths               *)
(* Emoji of the printed lines are written as their names (CHECK, CROSS).   *)
(***************************************************************************)
EXTENDS Integers, Sequences, FiniteSets, TLC

VARIABLES
    env,            \* os.environ: function from the names that are set to their values
    platform,       \* what platform.platform() answers on this host
    clock,          \* number of datetime.now() readings so far
    pc,             \* position of the flow run
    system_info,    \* <<>> or <<info>>: local of validation_flow (line 126)
    tests,          \* the list `tests` of test_connectivity (line 38)
    response,       \* <<>> or <<body>>: the open HTTP response of the current probe
    exc,            \* <<>> or <<e>>: the exception bound by the active except clause
    metadata_uri,   \* local metadata_uri of test_connectivity (line 59)
    requests,       \* sequence of URLs handed to urllib.request.urlopen in this run
    cpu,            \* <<>> or <<cpu_percent>> (hundredths of a percent)
    memory,         \* <<>> or <<psutil.virtual_memory()>>
    disk,           \* <<>> or <<psutil.disk_usage('/')>>
    resource_info,  \* <<>> or <<resources>>: local of validation_flow (line 128)
    summary,        \* <<>> or <<summary>>: value returned by validation_flow
    raised,         \* <<>> or <<e>>: exception that left validation_flow
    faults,         \* every exception raised so far in this run, with where it arose
    stdout,         \* sequence of printed lines
    log,            \* sequence of call / return / raise events of this run
    prev,           \* summaries returned by earlier runs (observer's record)
    runs            \* number of runs started

vars == <<env, platform, clock, pc, system_info, tests, response, exc, metadata_uri,
          requests, cpu, memory, disk, resource_info, summary, raised, faults, stdout,
          log, prev, runs>>

-----------------------------------------------------------------------------
(* Bounds and input domains                                                *)

MaxRuns == 2

None == "<None>"

EnvNames == {"HOSTNAME", "AWS_DEFAULT_REGION", "PREFECT_API_URL",
             "ECS_TASK_FAMILY", "ECS_CLUSTER", "ECS_CONTAINER_METADATA_URI_V4"}

MetadataVar == "ECS_CONTAINER_METADATA_URI_V4"

\* A value each variable takes when it is set to something non-empty.
SampleValue(name) ==
    CASE name = "HOSTNAME"           -> "ip-10-0-1-23"
      [] name = "AWS_DEFAULT_REGION" -> "us-east-1"
      [] name = "PREFECT_API_URL"    -> "https://api.prefect.cloud/api"
      [] name = "ECS_TASK_FAMILY"    -> "prefect-worker"
      [] name = "ECS_CLUSTER"        -> "prefect-cluster"
      [] name = MetadataVar          -> "http://169.254.170.2/v4/abc"

\* A value of the metadata variable that names no URL (it has no scheme).
SchemelessUri == "169.254.170.2/v4/abc"

\* The environment a choice of "unset" / "empty" / "value" / "schemeless" per
\* variable gives.
EnvOf(kind) ==
    [n \in {m \in EnvNames : kind[m] # "unset"} |->
        CASE kind[n] = "empty"      -> ""
          [] kind[n] = "schemeless" -> SchemelessUri
          [] OTHER                  -> SampleValue(n)]

EnvKinds ==
    {k \in [EnvNames -> {"unset", "empty", "value", "schemeless"}] :
        \A n \in EnvNames \ {MetadataVar} : k[n] # "schemeless"}

Envs == {EnvOf(k) : k \in EnvKinds}

\* Environments in which the five descriptive variables are all unset or all
\* set to their sample values.
UniformEnvs ==
    {EnvOf(k) : k \in {j \in EnvKinds :
        /\ \A n, m \in EnvNames \ {MetadataVar} : j[n] = j[m] /\ j[n] # "empty"
        /\ j[MetadataVar] # "schemeless"}}

Platforms == {"Linux-5.10.0-x86_64-with-glibc2.31", "Linux-6.1.0-aarch64-with-glibc2.36"}

PythonVersion == "3.11.4"

InternetUrl == "https://httpbin.org/ip"

\* Response bodies an endpoint may send.
BodyOrigin  == "{\"origin\": \"1.2.3.4\"}"
BodyTask    == "{\"TaskARN\": \"a\", \"Cluster\": \"c\", \"Family\": \"f\"}"
BodyPartial == "{\"TaskARN\": \"a\"}"
BodyArray   == "[]"
BodyHtml    == "<html>"

InternetBodies == {BodyOrigin, BodyArray, BodyHtml}
MetadataBodies == {BodyTask, BodyPartial, BodyArray, BodyHtml}

\* Exceptions urlopen raises once a request is sent.
NetworkErrors ==
    { [type |-> "URLError",  msg |-> "<urlopen error timed out>"],
      [type |-> "HTTPError", msg |-> "HTTP Error 503: Service Unavailable"] }

\* Exceptions of the psutil calls.
SamplingErrors == { [type |-> "OSError", msg |-> "[Errno 13] Permission denied"] }

ImportErrors == { [type |-> "ModuleNotFoundError", msg |-> "No module named 'psutil'"] }

\* OS samples; sizes in MiB, percentages in hundredths of a percent.
CpuSamples    == {1250}
MemorySamples == { [total |-> 7680, used |-> 2048, percent |-> 2670] }
DiskSamples   == { [total |-> 30720, used |-> 10240],
                   [total |-> 20000, used |-> 19999],
                   [total |-> 0,     used |-> 0] }

-----------------------------------------------------------------------------
(* Library behaviour the code relies on                                    *)

\* `os.environ.get(key) or default`: an empty value gives the default too.
EnvironGetOr(key, default) ==
    IF key \in DOMAIN env /\ env[key] # "" THEN env[key] ELSE default

\* os.environ.get(key, default)
EnvironGet(key, default) ==
    IF key \in DOMAIN env THEN env[key] ELSE default

\* Truth value of an Optional[str] in `if metadata_uri:`.
Truthy(v) == v # None /\ v # ""

\* datetime.now().isoformat() at the given reading of the clock.
IsoFormat(t) == "2025-01-01T00:00:" \o (IF t < 10 THEN "0" ELSE "") \o ToString(t)

\* json.loads(response.read().decode()) on the bodies above.
JsonLoads(body) ==
    CASE body = BodyOrigin  -> [ok |-> TRUE, kind |-> "dict", value |-> [origin |-> "1.2.3.4"]]
      [] body = BodyTask    -> [ok |-> TRUE, kind |-> "dict",
                                value |-> [TaskARN |-> "a", Cluster |-> "c", Family |-> "f"]]
      [] body = BodyPartial -> [ok |-> TRUE, kind |-> "dict", value |-> [TaskARN |-> "a"]]
      [] body = BodyArray   -> [ok |-> TRUE, kind |-> "list", value |-> <<>>]
      [] OTHER              -> [ok |-> FALSE,
                                exc |-> [type |-> "JSONDecodeError",
                                         msg |-> "Expecting value: line 1 column 1 (char 0)"]]

\* dict.get(key)
DictGet(d, key) == IF key \in DOMAIN d THEN d[key] ELSE None

\* Whether urlopen accepts the URL: it raises ValueError on one without a scheme.
HasScheme(url) == url \in {InternetUrl, SampleValue(MetadataVar) \o "/task"}

\* str(e)
Str(e) == e.msg

\* Exception classes that derive from Exception (all but the BaseException-only ones).
ExceptionClasses == {"URLError", "HTTPError", "JSONDecodeError", "AttributeError",
                     "ValueError", "UnicodeDecodeError", "OSError",
                     "ModuleNotFoundError", "ZeroDivisionError"}

\* A test of the first element only.
PyFirst(bools) == bools = <<>> \/ Head(bools)

\* all(iterable of booleans): stops at the first false element.
RECURSIVE PyAll(_)
PyAll(bools) ==
    IF bools = <<>> THEN TRUE
    ELSE IF ~Head(bools) THEN FALSE ELSE PyAll(Tail(bools))

\* round(num / den, 2), in hundredths (ties to even).
Round2(num, den) ==
    LET q == (100 * num) \div den
        r == (100 * num) % den
    IN  IF 2 * r > den \/ (2 * r = den /\ q % 2 = 1) THEN q + 1 ELSE q

\* 1024**3 bytes, in MiB.
MiBPerGiB == 1024

-----------------------------------------------------------------------------
(* Printed lines                                                           *)

Line(text, args) == [text |-> text, args |-> args]

Rule == "=================================================="

BannerPassed == "All tests passed! ECS worker is functioning correctly."
BannerFailed == "Some tests failed. Check the logs above for details."

RECURSIVE Concat(_)
Concat(seqs) == IF seqs = <<>> THEN <<>> ELSE Head(seqs) \o Concat(Tail(seqs))

-----------------------------------------------------------------------------
(* get_system_info, lines 13-30                                            *)

InfoKeys == <<"timestamp", "platform", "python_version", "container_hostname",
              "aws_region", "prefect_api_url", "task_family", "cluster_name">>

SystemInfo(t) ==
    [ timestamp          |-> IsoFormat(t),
      platform           |-> platform,
      python_version     |-> PythonVersion,
      container_hostname |-> EnvironGet("HOSTNAME", "unknown"),
      aws_region         |-> EnvironGet("AWS_DEFAULT_REGION", "unknown"),
      prefect_api_url    |-> EnvironGet("PREFECT_API_URL", "not_set"),
      task_family        |-> EnvironGet("ECS_TASK_FAMILY", "unknown"),
      cluster_name       |-> EnvironGet("ECS_CLUSTER", "unknown") ]

SystemInfoLines(info) ==
    <<Line("System Information:", <<>>)>> \o
    [i \in 1..Len(InfoKeys) |-> Line("  {key}: {value}", <<InfoKeys[i], info[InfoKeys[i]]>>)]

-----------------------------------------------------------------------------
(* test_connectivity, lines 33-86: the entries and the printed report      *)

\* Lines 44-48 and 63-71.
SuccessEntry(test, result) ==
    [test |-> test, status |-> "success", result |-> result]

\* A failed entry that also carries a result key.
FailedEntryBoth(test, e) ==
    [test |-> test, status |-> "failed", result |-> None, error |-> Str(e)]

\* Lines 50-54 and 73-77.
FailedEntry(test, e) ==
    [test |-> test, status |-> "failed", error |-> Str(e)]

\* The result payload of the metadata probe, lines 66-70.
TaskResult(task_metadata) ==
    [ task_arn |-> DictGet(task_metadata, "TaskARN"),
      cluster  |-> DictGet(task_metadata, "Cluster"),
      family   |-> DictGet(task_metadata, "Family") ]

\* Lines 79-84.
ConnectivityLines(ts) ==
    <<Line("Connectivity Test Results:", <<>>)>> \o
    Concat([i \in 1..Len(ts) |->
        <<Line("  {status_emoji} {test}: {status}",
               <<IF ts[i].status = "success" THEN "CHECK" ELSE "CROSS",
                 ts[i].test, ts[i].status>>)>> \o
        (IF ts[i].status = "failed"
            THEN <<Line("    Error: {error}",
                        <<IF "error" \in DOMAIN ts[i] THEN ts[i].error ELSE "Unknown error">>)>>
            ELSE <<>>)])

-----------------------------------------------------------------------------
(* check_resources, lines 89-113                                           *)

Resources(c, m, d) ==
    [ cpu_percent     |-> c,
      memory_total_gb |-> Round2(m.total, MiBPerGiB),
      memory_used_gb  |-> Round2(m.used, MiBPerGiB),
      memory_percent  |-> m.percent,
      disk_total_gb   |-> Round2(d.total, MiBPerGiB),
      disk_used_gb    |-> Round2(d.used, MiBPerGiB),
      disk_percent    |-> Round2(d.used * 100, d.total) ]

ResourceLines(r) ==
    << Line("Resource Usage:", <<>>),
       Line("  CPU: {cpu_percent}%", <<r.cpu_percent>>),
       Line("  Memory: {memory_used_gb}GB / {memory_total_gb}GB ({memory_percent}%)",
            <<r.memory_used_gb, r.memory_total_gb, r.memory_percent>>),
       Line("  Disk: {disk_used_gb}GB / {disk_total_gb}GB ({disk_percent}%)",
            <<r.disk_used_gb, r.disk_total_gb, r.disk_percent>>) >>

-----------------------------------------------------------------------------
(* Control flow of validation_flow, lines 117-149                          *)

\* The calls with the last two exchanged.
FlowOrderSwapped == <<"get_system_info", "check_resources", "test_connectivity">>

\* The collectors in the order lines 126-128 call them.
FlowOrder == <<"get_system_info", "test_connectivity", "check_resources">>

\* First position inside each collector.
EntryPc(fn) ==
    CASE fn = "get_system_info"   -> "get_system_info"
      [] fn = "test_connectivity" -> "probe1_open"
      [] fn = "check_resources"   -> "import_psutil"

IndexOf(fn) == CHOOSE i \in 1..Len(FlowOrder) : FlowOrder[i] = fn

\* Where control goes when collector fn returns, and the events that records.
AfterReturn(fn) ==
    IF IndexOf(fn) < Len(FlowOrder)
        THEN [pc     |-> EntryPc(FlowOrder[IndexOf(fn) + 1]),
              events |-> <<"return:" \o fn, "call:" \o FlowOrder[IndexOf(fn) + 1]>>]
        ELSE [pc |-> "summary", events |-> <<"return:" \o fn>>]

\* `except urllib.error.URLError as e`: a narrower clause.
CaughtOnlyURLError(e) == e.type = "URLError"

\* `except Exception as e`, lines 49 and 72: which exceptions the clause takes.
CaughtByExcept(e) == e.type \in ExceptionClasses

\* An exception e raised by `call` inside the try block of a probe whose
\* handler starts at handler_pc: control moves to the handler when the clause
\* takes e, and otherwise leaves test_connectivity and, validation_flow having
\* no handler, the flow.
RaiseInTry(probe, handler_pc, call, e) ==
    /\ faults' = Append(faults, [fn |-> "test_connectivity", probe |-> probe,
                                 call |-> call, e |-> e])
    /\ IF CaughtByExcept(e)
          THEN /\ pc' = handler_pc
               /\ exc' = <<e>>
               /\ UNCHANGED <<raised, log>>
          ELSE /\ pc' = "aborted"
               /\ raised' = <<e>>
               /\ log' = log \o <<"raise:test_connectivity", "raise:validation_flow">>
               /\ UNCHANGED exc

\* check_resources with a handler that records the error and returns.
ResourceRaiseSwallowed(call, e) ==
    /\ faults' = Append(faults, [fn |-> "check_resources", probe |-> "", call |-> call, e |-> e])
    /\ resource_info' = <<[error |-> Str(e)]>>
    /\ pc' = AfterReturn("check_resources").pc
    /\ log' = log \o AfterReturn("check_resources").events
    /\ UNCHANGED <<exc, raised, stdout>>

\* An exception e raised by `call` in check_resources (no try block, lines 91-105):
\* it leaves check_resources and validation_flow.
ResourceRaise(call, e) ==
    /\ faults' = Append(faults, [fn |-> "check_resources", probe |-> "", call |-> call, e |-> e])
    /\ pc' = "aborted"
    /\ raised' = <<e>>
    /\ log' = log \o <<"raise:check_resources", "raise:validation_flow">>
    /\ UNCHANGED <<exc, resource_info, stdout>>

\* validation_success with the resource record taken into account.
ValidationSuccessWithResources(results) ==
    /\ PyAll([i \in 1..Len(results) |-> results[i].status = "success"])
    /\ resource_info[1].disk_percent < 9000

\* Lines 137-139.
ValidationSuccess(results) ==
    PyAll([i \in 1..Len(results) |-> results[i].status = "success"])

\* The two banners exchanged.
BannerSwapped(success) == IF success THEN BannerFailed ELSE BannerPassed

\* Lines 144-147.
Banner(success) == IF success THEN BannerPassed ELSE BannerFailed

\* Lines 131-140.
Summary(t) ==
    [ flow_status        |-> "completed",
      timestamp          |-> IsoFormat(t),
      system_info        |-> system_info[1],
      connectivity_tests |-> tests,
      resource_usage     |-> resource_info[1],
      validation_success |-> ValidationSuccess(tests) ]

-----------------------------------------------------------------------------
(* Initial states                                                          *)

InitRun ==
    /\ clock = 0
    /\ pc = "start"
    /\ system_info = <<>>
    /\ tests = <<>>
    /\ response = <<>>
    /\ exc = <<>>
    /\ metadata_uri = None
    /\ requests = <<>>
    /\ cpu = <<>>
    /\ memory = <<>>
    /\ disk = <<>>
    /\ resource_info = <<>>
    /\ summary = <<>>
    /\ raised = <<>>
    /\ faults = <<>>
    /\ stdout = <<>>
    /\ log = <<>>
    /\ prev = <<>>
    /\ runs = 1

Init ==
    /\ env \in Envs
    /\ platform \in Platforms
    /\ InitRun

InitRuns ==
    /\ env \in UniformEnvs
    /\ platform \in Platforms
    /\ InitRun

-----------------------------------------------------------------------------
(* Actions                                                                 *)

\* Lines 122-126: the flow prints its heading and calls the first collector.
FlowStart ==
    /\ pc = "start"
    /\ stdout' = stdout \o <<Line("Starting ECS Worker Validation Flow", <<>>), Line(Rule, <<>>)>>
    /\ log' = <<"call:validation_flow", "call:" \o FlowOrder[1]>>
    /\ pc' = EntryPc(FlowOrder[1])
    /\ UNCHANGED <<env, platform, clock, system_info, tests, response, exc, metadata_uri,
                   requests, cpu, memory, disk, resource_info, summary, raised, faults, prev, runs>>

\* Lines 15-30.
GetSystemInfo ==
    /\ pc = "get_system_info"
    /\ system_info' = <<SystemInfo(clock)>>
    /\ clock' = clock + 1
    /\ stdout' = stdout \o SystemInfoLines(SystemInfo(clock))
    /\ log' = log \o AfterReturn("get_system_info").events
    /\ pc' = AfterReturn("get_system_info").pc
    /\ UNCHANGED <<env, platform, tests, response, exc, metadata_uri, requests, cpu,
                   memory, disk, resource_info, summary, raised, faults, prev, runs>>

\* Line 42: urlopen("https://httpbin.org/ip", timeout=10).
Probe1Open ==
    /\ pc = "probe1_open"
    /\ requests' = Append(requests, InternetUrl)
    /\ \/ \E body \in InternetBodies :
            /\ response' = <<body>>
            /\ pc' = "probe1_parse"
            /\ UNCHANGED <<exc, raised, faults, log>>
       \/ \E e \in NetworkErrors :
            /\ RaiseInTry("internet_connectivity", "probe1_except", "urlopen", e)
            /\ UNCHANGED response
    /\ UNCHANGED <<env, platform, clock, system_info, tests, metadata_uri, cpu, memory,
                   disk, resource_info, summary, stdout, prev, runs>>

\* Lines 43-48.
Probe1Parse ==
    /\ pc = "probe1_parse"
    /\ LET r == JsonLoads(response[1]) IN
        IF r.ok
            THEN /\ tests' = Append(tests, SuccessEntry("internet_connectivity", r.value))
                 /\ pc' = "probe2_env"
                 /\ UNCHANGED <<exc, raised, faults, log>>
            ELSE /\ RaiseInTry("internet_connectivity", "probe1_except", "json.loads", r.exc)
                 /\ UNCHANGED tests
    /\ response' = <<>>
    /\ UNCHANGED <<env, platform, clock, system_info, metadata_uri, requests, cpu, memory,
                   disk, resource_info, summary, stdout, prev, runs>>

\* A handler of the internet probe that requests once more before giving up.
Probe1ExceptRetry ==
    /\ pc = "probe1_except"
    /\ IF Len(requests) < 2
          THEN pc' = "probe1_open" /\ UNCHANGED tests
          ELSE /\ tests' = Append(tests, FailedEntry("internet_connectivity", exc[1]))
               /\ pc' = "probe2_env"
    /\ exc' = <<>>
    /\ UNCHANGED <<env, platform, clock, system_info, response, metadata_uri, requests, cpu,
                   memory, disk, resource_info, summary, raised, faults, stdout, log, prev, runs>>

\* Lines 49-54: the handler of the internet probe.
Probe1Except ==
    /\ pc = "probe1_except"
    /\ tests' = Append(tests, FailedEntry("internet_connectivity", exc[1]))
    /\ exc' = <<>>
    /\ pc' = "probe2_env"
    /\ UNCHANGED <<env, platform, clock, system_info, response, metadata_uri, requests, cpu,
                   memory, disk, resource_info, summary, raised, faults, stdout, log, prev, runs>>

\* Lines 59-60.
Probe2Env ==
    /\ pc = "probe2_env"
    /\ metadata_uri' = EnvironGet(MetadataVar, None)
    /\ pc' = IF Truthy(EnvironGet(MetadataVar, None)) THEN "probe2_open" ELSE "report"
    /\ UNCHANGED <<env, platform, clock, system_info, tests, response, exc, requests, cpu,
                   memory, disk, resource_info, summary, raised, faults, stdout, log, prev, runs>>

\* Line 61: urlopen(f"{metadata_uri}/task", timeout=5).
Probe2Open ==
    /\ pc = "probe2_open"
    /\ requests' = Append(requests, metadata_uri \o "/task")
    /\ IF HasScheme(metadata_uri \o "/task")
          THEN \/ \E body \in MetadataBodies :
                    /\ response' = <<body>>
                    /\ pc' = "probe2_parse"
                    /\ UNCHANGED <<exc, raised, faults, log>>
               \/ \E e \in NetworkErrors :
                    /\ RaiseInTry("ecs_metadata", "probe2_except", "urlopen", e)
                    /\ UNCHANGED response
          ELSE /\ RaiseInTry("ecs_metadata", "probe2_except", "urlopen",
                             [type |-> "ValueError",
                              msg  |-> "unknown url type: '" \o metadata_uri \o "/task'"])
               /\ UNCHANGED response
    /\ UNCHANGED <<env, platform, clock, system_info, tests, metadata_uri, cpu, memory,
                   disk, resource_info, summary, stdout, prev, runs>>

\* Lines 62-71.
Probe2Parse ==
    /\ pc = "probe2_parse"
    /\ LET r == JsonLoads(response[1]) IN
        IF ~r.ok
            THEN /\ RaiseInTry("ecs_metadata", "probe2_except", "json.loads", r.exc)
                 /\ UNCHANGED tests
        ELSE IF r.kind # "dict"
            THEN /\ RaiseInTry("ecs_metadata", "probe2_except", "get",
                               [type |-> "AttributeError",
                                msg  |-> "'list' object has no attribute 'get'"])
                 /\ UNCHANGED tests
        ELSE /\ tests' = Append(tests, SuccessEntry("ecs_metadata", TaskResult(r.value)))
             /\ pc' = "report"
             /\ UNCHANGED <<exc, raised, faults, log>>
    /\ response' = <<>>
    /\ UNCHANGED <<env, platform, clock, system_info, metadata_uri, requests, cpu, memory,
                   disk, resource_info, summary, stdout, prev, runs>>

\* A handler of the metadata probe with `pass` for a body.
Probe2ExceptSilent ==
    /\ pc = "probe2_except"
    /\ exc' = <<>>
    /\ pc' = "report"
    /\ UNCHANGED <<env, platform, clock, system_info, tests, response, metadata_uri, requests,
                   cpu, memory, disk, resource_info, summary, raised, faults, stdout, log, prev, runs>>

\* Lines 72-77: the handler of the metadata probe.
Probe2Except ==
    /\ pc = "probe2_except"
    /\ tests' = Append(tests, FailedEntry("ecs_metadata", exc[1]))
    /\ exc' = <<>>
    /\ pc' = "report"
    /\ UNCHANGED <<env, platform, clock, system_info, response, metadata_uri, requests, cpu,
                   memory, disk, resource_info, summary, raised, faults, stdout, log, prev, runs>>

\* Lines 79-86.
Report ==
    /\ pc = "report"
    /\ stdout' = stdout \o ConnectivityLines(tests)
    /\ log' = log \o AfterReturn("test_connectivity").events
    /\ pc' = AfterReturn("test_connectivity").pc
    /\ UNCHANGED <<env, platform, clock, system_info, tests, response, exc, metadata_uri,
                   requests, cpu, memory, disk, resource_info, summary, raised, faults, prev, runs>>

\* Line 91: import psutil.
ImportPsutil ==
    /\ pc = "import_psutil"
    /\ \/ /\ pc' = "cpu_percent"
          /\ UNCHANGED <<exc, raised, faults, log, resource_info, stdout>>
       \/ \E e \in ImportErrors : ResourceRaise("import", e)
    /\ UNCHANGED <<env, platform, clock, system_info, tests, response, metadata_uri, requests,
                   cpu, memory, disk, summary, prev, runs>>

\* Line 94: psutil.cpu_percent(interval=1).
SampleCpu ==
    /\ pc = "cpu_percent"
    /\ \/ \E c \in CpuSamples :
            /\ cpu' = <<c>>
            /\ pc' = "virtual_memory"
            /\ UNCHANGED <<exc, raised, faults, log, resource_info, stdout>>
       \/ \E e \in SamplingErrors : ResourceRaise("cpu_percent", e) /\ UNCHANGED cpu
    /\ UNCHANGED <<env, platform, clock, system_info, tests, response, metadata_uri, requests,
                   memory, disk, summary, prev, runs>>

\* Line 95: psutil.virtual_memory().
SampleMemory ==
    /\ pc = "virtual_memory"
    /\ \/ \E m \in MemorySamples :
            /\ memory' = <<m>>
            /\ pc' = "disk_usage"
            /\ UNCHANGED <<exc, raised, faults, log, resource_info, stdout>>
       \/ \E e \in SamplingErrors : ResourceRaise("virtual_memory", e) /\ UNCHANGED memory
    /\ UNCHANGED <<env, platform, clock, system_info, tests, response, metadata_uri, requests,
                   cpu, disk, summary, prev, runs>>

\* Line 96: psutil.disk_usage('/').
SampleDisk ==
    /\ pc = "disk_usage"
    /\ \/ \E d \in DiskSamples :
            /\ disk' = <<d>>
            /\ pc' = "resources"
            /\ UNCHANGED <<exc, raised, faults, log, resource_info, stdout>>
       \/ \E e \in SamplingErrors : ResourceRaise("disk_usage", e) /\ UNCHANGED disk
    /\ UNCHANGED <<env, platform, clock, system_info, tests, response, metadata_uri, requests,
                   cpu, memory, summary, prev, runs>>

\* Lines 98-113; line 105 divides by disk.total.
BuildResources ==
    /\ pc = "resources"
    /\ IF disk[1].total = 0
          THEN ResourceRaise("divide", [type |-> "ZeroDivisionError", msg |-> "division by zero"])
          ELSE /\ resource_info' = <<Resources(cpu[1], memory[1], disk[1])>>
               /\ stdout' = stdout \o ResourceLines(Resources(cpu[1], memory[1], disk[1]))
               /\ log' = log \o AfterReturn("check_resources").events
               /\ pc' = AfterReturn("check_resources").pc
               /\ UNCHANGED <<exc, raised, faults>>
    /\ UNCHANGED <<env, platform, clock, system_info, tests, response, metadata_uri, requests,
                   cpu, memory, disk, summary, prev, runs>>

\* Lines 131-149.
BuildSummary ==
    /\ pc = "summary"
    /\ summary' = <<Summary(clock)>>
    /\ clock' = clock + 1
    /\ stdout' = stdout \o << Line("\n" \o Rule, <<>>),
                              Line("Validation Summary:", <<>>),
                              Line(Banner(Summary(clock).validation_success), <<>>) >>
    /\ log' = Append(log, "return:validation_flow")
    /\ pc' = "done"
    /\ UNCHANGED <<env, platform, system_info, tests, response, exc, metadata_uri, requests,
                   cpu, memory, disk, resource_info, raised, faults, prev, runs>>

\* A further, independent run of the flow in a container of its own; the
\* summary of the run that ended is kept for comparison.
Restart ==
    /\ pc \in {"done", "aborted"}
    /\ runs < MaxRuns
    /\ runs' = runs + 1
    /\ prev' = IF summary # <<>> THEN summary ELSE prev
    /\ env' \in UniformEnvs
    /\ platform' \in Platforms
    /\ clock' = 0
    /\ pc' = "start"
    /\ system_info' = <<>>
    /\ tests' = <<>>
    /\ response' = <<>>
    /\ exc' = <<>>
    /\ metadata_uri' = None
    /\ requests' = <<>>
    /\ cpu' = <<>>
    /\ memory' = <<>>
    /\ disk' = <<>>
    /\ resource_info' = <<>>
    /\ summary' = <<>>
    /\ raised' = <<>>
    /\ faults' = <<>>
    /\ stdout' = <<>>
    /\ log' = <<>>

Next ==
    \/ FlowStart
    \/ GetSystemInfo
    \/ Probe1Open
    \/ Probe1Parse
    \/ Probe1Except
    \/ Probe2Env
    \/ Probe2Open
    \/ Probe2Parse
    \/ Probe2Except
    \/ Report
    \/ ImportPsutil
    \/ SampleCpu
    \/ SampleMemory
    \/ SampleDisk
    \/ BuildResources
    \/ BuildSummary

Spec == Init /\ [][Next]_vars

NextRuns == Next \/ Restart

SpecRuns == InitRuns /\ [][NextRuns]_vars

-----------------------------------------------------------------------------
(* Vocabulary of the properties                                            *)

InLog(event) == \E i \in 1..Len(log) : log[i] = event

Returned(fn) == InLog("return:" \o fn)

Printed(text) == \E i \in 1..Len(stdout) : stdout[i].text = text

Count(seq, x) == Cardinality({i \in 1..Len(seq) : seq[i] = x})

IsPrefix(s, t) == Len(s) <= Len(t) /\ \A i \in 1..Len(s) : s[i] = t[i]

FaultsOf(probe) == {i \in 1..Len(faults) : faults[i].probe = probe}

ResourceFaults == {i \in 1..Len(faults) : faults[i].fn = "check_resources"}

\* The metadata endpoint did not answer the request sent to it.
MetadataUnreachable ==
    \E i \in FaultsOf("ecs_metadata") : faults[i].call = "urlopen"

HasFailedEntry == \E i \in 1..Len(tests) : tests[i].status = "failed"

\* The positions inside test_connectivity.
ConnectivityPcs == {"probe1_open", "probe1_parse", "probe1_except", "probe2_env",
                    "probe2_open", "probe2_parse", "probe2_except", "report"}

-----------------------------------------------------------------------------
(* C1 *)

\* C1: the summary validation_flow returns has validation_success equal to
\* the conjunction, over all entries of its connectivity_tests, of
\* (status = "success"), whatever the two probes did; the conjunction over
\* an empty sequence is true.
C1_ValidationSuccessIsConjunction ==
    /\ ValidationSuccess(<<>>) = TRUE
    /\ summary # <<>> =>
         summary[1].validation_success =
            (\A i \in 1..Len(summary[1].connectivity_tests) :
                summary[1].connectivity_tests[i].status = "success")

\* A returned summary whose first entry succeeded and whose second failed.
C1_Witness ==
    /\ summary # <<>>
    /\ Len(summary[1].connectivity_tests) = 2
    /\ summary[1].connectivity_tests[1].status = "success"
    /\ summary[1].connectivity_tests[2].status = "failed"
    /\ summary[1].validation_success = FALSE

-----------------------------------------------------------------------------
(* C2 *)

\* C2 as stated: once test_connectivity has returned, the sequence has
\* exactly one entry if the metadata variable is unset and exactly two if it
\* is set to any value at all, the second being "failed" when the endpoint
\* was unreachable.
C2_EntriesBySetVariable ==
    Returned("test_connectivity") =>
        /\ MetadataVar \notin DOMAIN env => Len(tests) = 1
        /\ MetadataVar \in DOMAIN env =>
              /\ Len(tests) = 2
              /\ MetadataUnreachable => tests[2].status = "failed"

\* C2 amended: once test_connectivity has returned, the sequence has exactly
\* one entry (the internet probe) if the metadata variable is unset or set to
\* the empty string, and exactly two if it is set to a non-empty value:
\* reachable or not, and the second is "failed" when the endpoint was
\* unreachable. The outcome of the internet probe plays no part.
C2_EntriesByNonEmptyVariable ==
    Returned("test_connectivity") =>
        /\ (MetadataVar \notin DOMAIN env \/ env[MetadataVar] = "") =>
              /\ Len(tests) = 1
              /\ tests[1].test = "internet_connectivity"
        /\ (MetadataVar \in DOMAIN env /\ env[MetadataVar] # "") =>
              /\ Len(tests) = 2
              /\ MetadataUnreachable => tests[2].status = "failed"

\* The variable names an endpoint that did not answer, after a failed
\* internet probe: two entries are returned.
C2_Witness ==
    /\ Returned("test_connectivity")
    /\ MetadataVar \in DOMAIN env
    /\ env[MetadataVar] # ""
    /\ MetadataUnreachable
    /\ Len(tests) = 2
    /\ tests[1].status = "failed"
    /\ tests[2].status = "failed"

-----------------------------------------------------------------------------
(* C3 *)

\* C3: no exception leaves test_connectivity. Every exception raised in a
\* probe (by urlopen, by json.loads, by reading the parsed body) reaches that
\* probe's handler and, once the handler has run, is an entry of that probe
\* with status "failed" and error str(e); after a failed internet probe the
\* metadata probe still runs (the variable is read, and the endpoint is
\* requested if the variable holds a non-empty value); and from every position
\* inside test_connectivity a step is possible, up to its return.
C3_ProbeFailuresAreRecorded ==
    /\ ~InLog("raise:test_connectivity")
    /\ \A i \in 1..Len(faults) :
          faults[i].fn = "test_connectivity" =>
             \/ /\ pc = (IF faults[i].probe = "internet_connectivity"
                            THEN "probe1_except" ELSE "probe2_except")
                /\ exc = <<faults[i].e>>
             \/ \E j \in 1..Len(tests) :
                   /\ tests[j].test = faults[i].probe
                   /\ tests[j].status = "failed"
                   /\ "error" \in DOMAIN tests[j]
                   /\ tests[j].error = Str(faults[i].e)
    /\ (FaultsOf("internet_connectivity") # {} /\ Returned("test_connectivity")) =>
          /\ metadata_uri = (IF MetadataVar \in DOMAIN env THEN env[MetadataVar] ELSE None)
          /\ (MetadataVar \in DOMAIN env /\ env[MetadataVar] # "") =>
                Count(requests, env[MetadataVar] \o "/task") = 1
    /\ pc \in ConnectivityPcs => ENABLED Next

\* Both probes raised (the first a timeout, the second on a body that is no
\* JSON object) and test_connectivity returned two "failed" entries.
C3_Witness ==
    /\ Returned("test_connectivity")
    /\ Len(faults) = 2
    /\ faults[1].probe = "internet_connectivity"
    /\ faults[1].e.type = "URLError"
    /\ faults[2].probe = "ecs_metadata"
    /\ faults[2].e.type = "AttributeError"
    /\ Len(tests) = 2
    /\ tests[1].status = "failed"
    /\ tests[2].status = "failed"

-----------------------------------------------------------------------------
(* C4 *)

\* C4: an exception raised in check_resources leaves validation_flow
\* uncaught: the run is then aborted with that exception, no summary exists,
\* neither banner has been printed and no further step is taken, whatever
\* the connectivity results are.
C4_ResourceErrorPropagates ==
    ResourceFaults # {} =>
        /\ pc = "aborted"
        /\ \A i \in ResourceFaults : raised = <<faults[i].e>>
        /\ summary = <<>>
        /\ resource_info = <<>>
        /\ ~Printed(BannerPassed)
        /\ ~Printed(BannerFailed)
        /\ ~Printed("Validation Summary:")
        /\ ~InLog("return:validation_flow")
        /\ ~ENABLED Next

\* psutil raised after both probes had succeeded.
C4_Witness ==
    /\ ResourceFaults # {}
    /\ faults[Len(faults)].e.type = "OSError"
    /\ Len(tests) = 2
    /\ ~HasFailedEntry

-----------------------------------------------------------------------------
(* C5 *)

\* The events of a run that completes, and of one that check_resources aborts.
CompletedRun ==
    << "call:validation_flow",
       "call:get_system_info",   "return:get_system_info",
       "call:test_connectivity", "return:test_connectivity",
       "call:check_resources",   "return:check_resources",
       "return:validation_flow" >>

AbortedRun ==
    << "call:validation_flow",
       "call:get_system_info",   "return:get_system_info",
       "call:test_connectivity", "return:test_connectivity",
       "call:check_resources",   "raise:check_resources",
       "raise:validation_flow" >>

\* The stage of the run a printed line belongs to: 0 the flow's heading,
\* 1 get_system_info, 2 test_connectivity, 3 check_resources, 4 the summary.
Stage(line) ==
    CASE line.text \in {"Starting ECS Worker Validation Flow", Rule} -> 0
      [] line.text \in {"System Information:", "  {key}: {value}"} -> 1
      [] line.text \in {"Connectivity Test Results:",
                        "  {status_emoji} {test}: {status}", "    Error: {error}"} -> 2
      [] line.text \in {"Resource Usage:", "  CPU: {cpu_percent}%",
                        "  Memory: {memory_used_gb}GB / {memory_total_gb}GB ({memory_percent}%)",
                        "  Disk: {disk_used_gb}GB / {disk_total_gb}GB ({disk_percent}%)"} -> 3
      [] OTHER -> 4

LinesOfStage(n) == Cardinality({i \in 1..Len(stdout) : Stage(stdout[i]) = n})

\* C5: the collectors run in the order get_system_info, test_connectivity,
\* check_resources, one after the other: the calls and returns of a run are
\* an initial part of that fixed sequence; a collector's work (its requests,
\* its samples, its printed lines) exists only once the collector before it
\* has returned, and all of its lines are printed when it returns; printed
\* lines appear in the order of their collectors; and the summary exists only
\* after all three have returned.
C5_CollectorsRunInOrder ==
    /\ IsPrefix(log, CompletedRun) \/ IsPrefix(log, AbortedRun)
    /\ \A i \in 1..Len(stdout) - 1 : Stage(stdout[i]) <= Stage(stdout[i + 1])
    /\ LinesOfStage(1) = (IF Returned("get_system_info") THEN 1 + Len(InfoKeys) ELSE 0)
    /\ (requests # <<>> \/ tests # <<>>) => Returned("get_system_info")
    /\ LinesOfStage(2) > 0 <=> Returned("test_connectivity")
    /\ Returned("test_connectivity") =>
          LinesOfStage(2) = 1 + Len(tests) + Count([i \in 1..Len(tests) |-> tests[i].status], "failed")
    /\ (cpu # <<>> \/ memory # <<>> \/ disk # <<>> \/ ResourceFaults # {}) =>
          Returned("test_connectivity")
    /\ LinesOfStage(3) = (IF Returned("check_resources") THEN 4 ELSE 0)
    /\ (summary # <<>> \/ LinesOfStage(4) > 0) =>
          /\ Returned("get_system_info")
          /\ Returned("test_connectivity")
          /\ Returned("check_resources")
          /\ log = CompletedRun

\* A run that completed, with output of every stage.
C5_Witness ==
    /\ pc = "done"
    /\ log = CompletedRun
    /\ Len(requests) = 2
    /\ \A n \in 0..4 : LinesOfStage(n) > 0

-----------------------------------------------------------------------------
(* C6 *)

\* The five fields read from the environment: field, variable, default.
EnvFields ==
    { <<"container_hostname", "HOSTNAME",           "unknown">>,
      <<"aws_region",         "AWS_DEFAULT_REGION", "unknown">>,
      <<"prefect_api_url",    "PREFECT_API_URL",    "not_set">>,
      <<"task_family",        "ECS_TASK_FAMILY",    "unknown">>,
      <<"cluster_name",       "ECS_CLUSTER",        "unknown">> }

\* C6: for every combination of set and unset variables get_system_info
\* returns (no exception arises in it, and the run is past it after one
\* step), and each of the five fields holds its own variable's value when the
\* variable is set (the empty string included) and otherwise its default:
\* "not_set" for prefect_api_url, "unknown" for the other four.
C6_SystemInfoFieldsOrDefaults ==
    /\ \A i \in 1..Len(faults) : faults[i].fn # "get_system_info"
    /\ ~InLog("raise:get_system_info")
    /\ pc = "get_system_info" => ENABLED GetSystemInfo
    /\ InLog("call:get_system_info") /\ pc # "get_system_info" =>
          /\ Returned("get_system_info")
          /\ system_info # <<>>
    /\ system_info # <<>> =>
          \A f \in EnvFields :
             system_info[1][f[1]] = (IF f[2] \in DOMAIN env THEN env[f[2]] ELSE f[3])

\* A mixed environment: two variables unset, one set to the empty string, two
\* set to values.
C6_Witness ==
    /\ system_info # <<>>
    /\ "HOSTNAME" \notin DOMAIN env
    /\ "PREFECT_API_URL" \notin DOMAIN env
    /\ "AWS_DEFAULT_REGION" \in DOMAIN env /\ env["AWS_DEFAULT_REGION"] = ""
    /\ "ECS_TASK_FAMILY" \in DOMAIN env /\ env["ECS_TASK_FAMILY"] # ""
    /\ "ECS_CLUSTER" \in DOMAIN env /\ env["ECS_CLUSTER"] # ""
    /\ system_info[1].container_hostname = "unknown"
    /\ system_info[1].prefect_api_url = "not_set"
    /\ system_info[1].aws_region = ""

-----------------------------------------------------------------------------
(* C7 *)

\* C7: two runs that complete with the same connectivity result sequence have
\* the same validation_success, whatever their system-info and resource-usage
\* records are (prev holds the summary of an earlier completed run).
C7_SuccessDependsOnConnectivityOnly ==
    (/\ prev # <<>>
     /\ summary # <<>>
     /\ prev[1].connectivity_tests = summary[1].connectivity_tests)
        => prev[1].validation_success = summary[1].validation_success

\* Two completed runs with the same connectivity results whose system-info
\* records differ in environment and platform and whose resource records
\* differ.
C7_Witness ==
    /\ prev # <<>>
    /\ summary # <<>>
    /\ prev[1].connectivity_tests = summary[1].connectivity_tests
    /\ prev[1].system_info.platform # summary[1].system_info.platform
    /\ prev[1].system_info.container_hostname # summary[1].system_info.container_hostname
    /\ prev[1].resource_usage.disk_percent < 9000
    /\ summary[1].resource_usage.disk_percent >= 9000

-----------------------------------------------------------------------------
(* C8 *)

\* C8: a banner is printed only with a returned summary: "Some tests failed"
\* exactly when the summary has validation_success = false, "All tests
\* passed" exactly when it has validation_success = true. A run ends either
\* done or aborted, never both; it is aborted, with no summary, exactly when
\* check_resources raised; and it ends with a summary of validation_success =
\* false exactly when some connectivity entry is "failed" and check_resources
\* did not raise.
C8_FailedRunEndsOneOfTwoWays ==
    /\ Printed(BannerFailed) <=> (summary # <<>> /\ ~summary[1].validation_success)
    /\ Printed(BannerPassed) <=> (summary # <<>> /\ summary[1].validation_success)
    /\ ~ENABLED Next <=> pc \in {"done", "aborted"}
    /\ pc = "done" <=> summary # <<>>
    /\ pc = "aborted" <=> ResourceFaults # {}
    /\ pc = "aborted" <=> raised # <<>>
    /\ pc \in {"done", "aborted"} =>
          ((summary # <<>> /\ ~summary[1].validation_success)
              <=> (HasFailedEntry /\ ResourceFaults = {}))

\* A run that ended with a summary of validation_success = false and the
\* "Some tests failed" banner.
C8_Witness ==
    /\ pc = "done"
    /\ ~summary[1].validation_success
    /\ HasFailedEntry
    /\ Printed(BannerFailed)
    /\ ~Printed(BannerPassed)

-----------------------------------------------------------------------------
(* C9 *)

\* C9: within one call of test_connectivity the internet endpoint is
\* requested at most once, and exactly once by the time the probe has its
\* entry; the metadata endpoint is requested at most once, and never when the
\* variable is absent; no other request is made; and each probe raises at
\* most once, its one failure being final.
C9_NoProbeIsRetried ==
    /\ Count(requests, InternetUrl) <= 1
    /\ (\E i \in 1..Len(tests) : tests[i].test = "internet_connectivity") =>
          Count(requests, InternetUrl) = 1
    /\ Returned("test_connectivity") => Count(requests, InternetUrl) = 1
    /\ Len(requests) - Count(requests, InternetUrl) <= 1
    /\ MetadataVar \notin DOMAIN env => Len(requests) = Count(requests, InternetUrl)
    /\ \A i \in 1..Len(requests) :
          requests[i] # InternetUrl =>
             /\ MetadataVar \in DOMAIN env
             /\ requests[i] = env[MetadataVar] \o "/task"
    /\ Cardinality(FaultsOf("internet_connectivity")) <= 1
    /\ Cardinality(FaultsOf("ecs_metadata")) <= 1

\* Both probes timed out and test_connectivity returned: one request each.
C9_Witness ==
    /\ Returned("test_connectivity")
    /\ Len(faults) = 2
    /\ faults[1].call = "urlopen"
    /\ faults[2].call = "urlopen"
    /\ Len(requests) = 2
    /\ Count(requests, InternetUrl) = 1

-----------------------------------------------------------------------------
(* C10 *)

\* C10: the sequence test_connectivity returns has one or two entries; the
\* first is the "internet_connectivity" entry and the second, if any, the
\* "ecs_metadata" entry, so no test name occurs twice; every entry has status
\* "success" or "failed" and exactly one of the keys result and error: result
\* exactly when the status is "success", error exactly when it is "failed".
C10_ShapeOfConnectivityResults ==
    Returned("test_connectivity") =>
        /\ Len(tests) \in {1, 2}
        /\ tests[1].test = "internet_connectivity"
        /\ Len(tests) = 2 => tests[2].test = "ecs_metadata"
        /\ \A i, j \in 1..Len(tests) : tests[i].test = tests[j].test => i = j
        /\ \A i \in 1..Len(tests) :
              /\ {"test", "status"} \subseteq DOMAIN tests[i]
              /\ tests[i].status \in {"success", "failed"}
              /\ ("result" \in DOMAIN tests[i]) # ("error" \in DOMAIN tests[i])
              /\ ("result" \in DOMAIN tests[i]) <=> (tests[i].status = "success")
              /\ ("error" \in DOMAIN tests[i]) <=> (tests[i].status = "failed")

\* A returned sequence of two entries, the first "failed" and the second
\* "success".
C10_Witness ==
    /\ Returned("test_connectivity")
    /\ Len(tests) = 2
    /\ tests[1].status = "failed"
    /\ "error" \in DOMAIN tests[1]
    /\ tests[2].status = "success"
    /\ "result" \in DOMAIN tests[2]

====
